---------------------------- MODULE Spec2Model ----------------------------
(***************************************************************************)
(* Model of ecat_packet_exporter (src/src/main.rs): the pcapng block loop  *)
(* of main, the Ethernet / EtherCAT frame header decoders and the datagram *)
(* loop of EtherCATDatagram::parse_datagrams.                              *)
(*                                                                         *)
(* Byte buffers are sequences of 0..255.  Rust indexes from 0, TLA+ from   *)
(* 1: At(buf, i) is Rust's buf[i], SliceFrom(buf, i) is &buf[i..].  Every  *)
(* Rust index and slice is bounds checked and panics when out of range; a  *)
(* panic ends the process (pc = "panicked").                               *)
(***************************************************************************)
EXTENDS Integers, Sequences, FiniteSets, TLC

VARIABLES
    pc,                   \* "main": at reader.next(); "datagrams": inside the loop
                          \* of parse_datagrams; "done": after the summary line;
                          \* "panicked": the process was ended by a panic
    panic_cause,          \* which panic ended the process ("none" while running)
    block,                \* what reader.next() returned last
    num_blocks,           \* main: num_blocks
    if_linktypes,         \* main: if_linktypes
    out,                  \* the lines written to stdout, in order
    frame_type,           \* EtherNetFrame::parse: frame_type (the ethertype)
    ecat_header,          \* EtherCATFrame::parse: length, reserved, ecat_frame_type
    dst_mac,              \* parse_datagrams: dst_mac
    src_mac,              \* parse_datagrams: src_mac
    data_buf,             \* parse_datagrams: data_buf
    next_datagram_offset, \* parse_datagrams: next_datagram_offset
    emitted               \* parse_datagrams: records printed by the current call

vars == <<pc, panic_cause, block, num_blocks, if_linktypes, out, frame_type,
          ecat_header, dst_mac, src_mac, data_buf, next_datagram_offset, emitted>>

-----------------------------------------------------------------------------
(* Bounds of the model *)

\* blocks read from the capture under Spec
MaxBlocks == 4
\* blocks read from the capture under SpecDecode and SpecCodec
MaxDecodeBlocks == 2
\* datagrams in the longest frame of the decode input set
MaxDatagrams == 3

-----------------------------------------------------------------------------
(* Byte-level helpers *)

Byte == 0..255

At(buf, i) == buf[i + 1]

InBounds(buf, i) == i < Len(buf)

SliceFrom(buf, i) == SubSeq(buf, i + 1, Len(buf))

SliceTo(buf, n) == SubSeq(buf, 1, n)

u16_from_be_bytes(b0, b1) == b0 * 256 + b1

\* mutant of u16_from_le_bytes: the two bytes taken in network order
u16_bytes_swapped(b0, b1) == b0 * 256 + b1

u16_from_le_bytes(b0, b1) == b0 + b1 * 256

-----------------------------------------------------------------------------
(* EtherCATDatagram *)

\* mutant of EtherCATCommand: the last named code falls into the catch-all arm
EtherCATCommand_short(b) ==
    IF b < 14 THEN CASE b = 0 -> "NOP" [] b = 1 -> "APRD" [] b = 2 -> "APWR"
                     [] b = 3 -> "APRW" [] b = 4 -> "FPRD" [] b = 5 -> "FPWR"
                     [] b = 6 -> "FPRW" [] b = 7 -> "BRD" [] b = 8 -> "BWR"
                     [] b = 9 -> "BRW" [] b = 10 -> "LRD" [] b = 11 -> "LWR"
                     [] b = 12 -> "LRW" [] OTHER -> "ARMW"
    ELSE "UNKNOWN"

EtherCATCommand(b) ==
    CASE b = 0 -> "NOP"
      [] b = 1 -> "APRD"
      [] b = 2 -> "APWR"
      [] b = 3 -> "APRW"
      [] b = 4 -> "FPRD"
      [] b = 5 -> "FPWR"
      [] b = 6 -> "FPRW"
      [] b = 7 -> "BRD"
      [] b = 8 -> "BWR"
      [] b = 9 -> "BRW"
      [] b = 10 -> "LRD"
      [] b = 11 -> "LWR"
      [] b = 12 -> "LRW"
      [] b = 13 -> "ARMW"
      [] b = 14 -> "FRMW"
      [] OTHER -> "UNKNOWN"

\* lines 96-121: the header fields, read from bytes 0..9 (needs Len(buf) >= 10)
parse_header(buf) ==
    LET len_rtr_last == u16_from_le_bytes(At(buf, 6), At(buf, 7))
    IN  [cmd            |-> EtherCATCommand(At(buf, 0)),
         index          |-> At(buf, 1),
         slave_addr     |-> u16_from_le_bytes(At(buf, 2), At(buf, 3)),
         offset_addr    |-> u16_from_le_bytes(At(buf, 4), At(buf, 5)),
         length         |-> len_rtr_last % 2048,
         round_trip     |-> (len_rtr_last \div 16384) % 2,
         last_indicator |-> (len_rtr_last \div 32768) % 2,
         irq            |-> u16_from_le_bytes(At(buf, 8), At(buf, 9))]

\* line 122: data is the whole rest of the buffer after the 10-byte header
datagram_data(buf) == SliceFrom(buf, 10)

\* lines 95-143.  The reads are made in source order, each one bounds checked:
\* bytes 0..9, the slice [10..], then bytes 10+length and 11+length.
parse_one_datagram(buf) ==
    IF ~InBounds(buf, 9)
    THEN [panic |-> TRUE]
    ELSE LET header == parse_header(buf)
         IN  IF ~InBounds(buf, 10 + header.length) \/ ~InBounds(buf, 11 + header.length)
             THEN [panic |-> TRUE]
             ELSE [panic  |-> FALSE,
                   header |-> header,
                   data   |-> datagram_data(buf),
                   wkc    |-> u16_from_le_bytes(At(buf, 10 + header.length),
                                                At(buf, 11 + header.length))]

\* mutant of is_last_datagram: the polarity of the bit inverted
is_last_datagram_inverted(datagram) == datagram.header.last_indicator = 1

\* lines 145-147
is_last_datagram(datagram) == datagram.header.last_indicator = 0

\* mutant of size: the working counter left out
size_without_wkc(datagram) == 10 + datagram.header.length

\* lines 149-151
size(datagram) == 10 + datagram.header.length + 2

\* lines 85-87, 154-158, 172-176: the line printed for one datagram, as its fields
Record(dst, src, datagram) ==
    [kind           |-> "datagram",
     dst_mac        |-> dst,
     src_mac        |-> src,
     cmd            |-> datagram.header.cmd,
     index          |-> datagram.header.index,
     slave_addr     |-> datagram.header.slave_addr,
     offset_addr    |-> datagram.header.offset_addr,
     length         |-> datagram.header.length,
     round_trip     |-> datagram.header.round_trip,
     last_indicator |-> datagram.header.last_indicator,
     irq            |-> datagram.header.irq,
     wkc            |-> datagram.wkc,
     data           |-> datagram.data]

HeaderLine == [kind |-> "header"]

UnknownBlockLine == [kind |-> "unknown block"]

SummaryLine(n) == [kind |-> "num_blocks", n |-> n]

-----------------------------------------------------------------------------
(* EtherCATFrame::parse, lines 46-49 *)

parse_frame_header(data) ==
    LET len_rsv_type == u16_from_le_bytes(At(data, 0), At(data, 1))
    IN  [length          |-> len_rsv_type % 2048,
         reserved        |-> (len_rsv_type \div 2048) % 2,
         ecat_frame_type |-> (len_rsv_type \div 4096) % 16]

NoHeader == [length |-> 0, reserved |-> 0, ecat_frame_type |-> 0]

(* main: get_ethernet_packetdata, lines 238-246.  pcap_parser's get_packetdata *)
(* gives PacketData::L2 of the first caplen bytes for Linktype::ETHERNET when  *)
(* 0 < caplen <= len, None when it cannot, and another variant (L3, L4,        *)
(* Unsupported) for every other link type; only L2 is passed on.               *)
get_ethernet_packetdata(raw_data, linktype, len) ==
    IF linktype = "ETHERNET" /\ len > 0 /\ len <= Len(raw_data)
    THEN [some |-> TRUE, packet_data |-> SliceTo(raw_data, len)]
    ELSE [some |-> FALSE]

-----------------------------------------------------------------------------
(* State after construction: main up to the first reader.next(), line 250 *)

NoBlock == [kind |-> "none"]

Init ==
    /\ pc = "main"
    /\ panic_cause = "none"
    /\ block = NoBlock
    /\ num_blocks = 0
    /\ if_linktypes = <<>>
    /\ out = <<HeaderLine>>
    /\ frame_type = 0
    /\ ecat_header = NoHeader
    /\ dst_mac = <<>>
    /\ src_mac = <<>>
    /\ data_buf = <<>>
    /\ next_datagram_offset = 0
    /\ emitted = 0

Panic(cause) ==
    /\ pc' = "panicked"
    /\ panic_cause' = cause

\* lines 254-257, 281-282
ReadSectionHeader ==
    /\ pc = "main"
    /\ block' = [kind |-> "SectionHeader"]
    /\ if_linktypes' = <<>>
    /\ num_blocks' = num_blocks + 1
    /\ UNCHANGED <<pc, panic_cause, out, frame_type, ecat_header, dst_mac, src_mac,
                   data_buf, next_datagram_offset, emitted>>

\* lines 258-261, 281-282
ReadInterfaceDescription(linktype) ==
    /\ pc = "main"
    /\ block' = [kind |-> "InterfaceDescription", linktype |-> linktype]
    /\ if_linktypes' = Append(if_linktypes, linktype)
    /\ num_blocks' = num_blocks + 1
    /\ UNCHANGED <<pc, panic_cause, out, frame_type, ecat_header, dst_mac, src_mac,
                   data_buf, next_datagram_offset, emitted>>

\* lines 277-279, 281-282: any other block
ReadOtherBlock ==
    /\ pc = "main"
    /\ block' = [kind |-> "Other"]
    /\ out' = Append(out, UnknownBlockLine)
    /\ num_blocks' = num_blocks + 1
    /\ UNCHANGED <<pc, panic_cause, if_linktypes, frame_type, ecat_header, dst_mac,
                   src_mac, data_buf, next_datagram_offset, emitted>>

\* lines 262-276 with EtherNetFrame::parse (22-35) and EtherCATFrame::parse
\* (45-58) up to the call of parse_datagrams, whose loop is ParseDatagram
ReadEnhancedPacket(if_id, data, caplen) ==
    /\ pc = "main"
    /\ block' = [kind |-> "EnhancedPacket", if_id |-> if_id, data |-> data,
                 caplen |-> caplen]
    /\ IF ~(if_id < Len(if_linktypes))
       THEN \* line 264: assert!
            /\ Panic("assertion failed")
            /\ UNCHANGED <<num_blocks, if_linktypes, out, frame_type, ecat_header,
                           dst_mac, src_mac, data_buf, next_datagram_offset, emitted>>
       ELSE LET got == get_ethernet_packetdata(data, At(if_linktypes, if_id), caplen)
            IN  IF ~got.some
                THEN \* line 274
                     /\ out' = Append(out, UnknownBlockLine)
                     /\ num_blocks' = num_blocks + 1
                     /\ UNCHANGED <<pc, panic_cause, if_linktypes, frame_type,
                                    ecat_header, dst_mac, src_mac, data_buf,
                                    next_datagram_offset, emitted>>
                ELSE LET packet_data == got.packet_data
                     IN  IF ~InBounds(packet_data, 13)
                         THEN \* lines 24-29: &data[0..6], &data[6..12], data[12], data[13]
                              /\ Panic("index out of bounds")
                              /\ UNCHANGED <<num_blocks, if_linktypes, out, frame_type,
                                             ecat_header, dst_mac, src_mac, data_buf,
                                             next_datagram_offset, emitted>>
                         ELSE IF ~InBounds(SliceFrom(packet_data, 14), 1)
                         THEN \* line 46: data[0], data[1] of the EtherCAT payload
                              /\ Panic("index out of bounds")
                              /\ frame_type' = u16_from_be_bytes(At(packet_data, 12),
                                                                  At(packet_data, 13))
                              /\ UNCHANGED <<num_blocks, if_linktypes, out, ecat_header,
                                             dst_mac, src_mac, data_buf,
                                             next_datagram_offset, emitted>>
                         ELSE /\ pc' = "datagrams"
                              /\ frame_type' = u16_from_be_bytes(At(packet_data, 12),
                                                                  At(packet_data, 13))
                              /\ ecat_header' = parse_frame_header(SliceFrom(packet_data, 14))
                              /\ dst_mac' = SubSeq(packet_data, 1, 6)
                              /\ src_mac' = SubSeq(packet_data, 7, 12)
                              /\ data_buf' = SliceFrom(packet_data, 16)
                              /\ next_datagram_offset' = 0
                              /\ emitted' = 0
                              /\ UNCHANGED <<panic_cause, num_blocks, if_linktypes, out>>

\* lines 79-92: one iteration of the loop of parse_datagrams; on the last
\* datagram the call returns to main, which counts the block (lines 281-282)
ParseDatagram ==
    /\ pc = "datagrams"
    /\ IF next_datagram_offset > Len(data_buf)
       THEN \* line 80: &data_buf[next_datagram_offset..]
            /\ Panic("index out of bounds")
            /\ UNCHANGED <<block, num_blocks, if_linktypes, out, frame_type, ecat_header,
                           dst_mac, src_mac, data_buf, next_datagram_offset, emitted>>
       ELSE LET datagram == parse_one_datagram(SliceFrom(data_buf, next_datagram_offset))
            IN  IF datagram.panic
                THEN /\ Panic("index out of bounds")
                     /\ UNCHANGED <<block, num_blocks, if_linktypes, out, frame_type,
                                    ecat_header, dst_mac, src_mac, data_buf,
                                    next_datagram_offset, emitted>>
                ELSE /\ next_datagram_offset' = next_datagram_offset + size(datagram)
                     /\ out' = Append(out, Record(dst_mac, src_mac, datagram))
                     /\ emitted' = emitted + 1
                     /\ IF is_last_datagram(datagram)
                        THEN /\ pc' = "main"
                             /\ num_blocks' = num_blocks + 1
                        ELSE /\ pc' = "datagrams"
                             /\ UNCHANGED num_blocks
                     /\ UNCHANGED <<panic_cause, block, if_linktypes, frame_type,
                                    ecat_header, dst_mac, src_mac, data_buf>>

\* lines 284, 291: end of the capture, the summary line
ReadEof ==
    /\ pc = "main"
    /\ pc' = "done"
    /\ block' = [kind |-> "Eof"]
    /\ out' = Append(out, SummaryLine(num_blocks))
    /\ UNCHANGED <<panic_cause, num_blocks, if_linktypes, frame_type, ecat_header,
                   dst_mac, src_mac, data_buf, next_datagram_offset, emitted>>

\* line 288: any other reader error.  (Err(Incomplete), lines 285-287, refills
\* the reader's buffer and changes nothing of this state: a stuttering step.)
ReadError ==
    /\ pc = "main"
    /\ block' = [kind |-> "Error"]
    /\ Panic("error while reading")
    /\ UNCHANGED <<num_blocks, if_linktypes, out, frame_type, ecat_header, dst_mac,
                   src_mac, data_buf, next_datagram_offset, emitted>>

-----------------------------------------------------------------------------
(* The captures the program is run on.  A frame is an Ethernet header, the  *)
(* 2-byte EtherCAT header and a payload; an enhanced packet block carries a *)
(* frame and a caplen, which cuts the frame anywhere from 0 bytes to all.   *)

\* 0x88A4
EtherTypeEtherCAT == 34980

\* 0x0800
EtherTypeIPv4 == 8 * 256

DstMac == <<255, 255, 255, 255, 255, 255>>

SrcMac == <<2, 0, 0, 0, 0, 1>>

EthernetHeader(ethertype) ==
    DstMac \o SrcMac \o <<ethertype \div 256, ethertype % 256>>

\* length in bits 0..10, frame type 1 (datagrams) in bits 12..15
EtherCATHeader(length) == <<length % 256, (length \div 256) + 16>>

Frame(ethertype, payload) ==
    EthernetHeader(ethertype) \o EtherCATHeader(Len(payload)) \o payload

\* one datagram on the wire: rsv is bits 11..13 of the word in bytes 6-7
DatagramBytes(cmd, index, length, rsv, rt, more, wkc) ==
    LET word == length + rsv * 2048 + rt * 16384 + more * 32768
    IN  <<cmd, index, 170, 187, 16, 0, word % 256, word \div 256, 0, 0>>
        \o [i \in 1..length |-> 208 + i]
        \o <<wkc % 256, wkc \div 256>>

\* datagram i of a chain: i-1 data bytes, a known command for odd i and an
\* unknown one for even i, reserved bits and round trip set from i
ChainDatagram(i, more) ==
    DatagramBytes(IF i % 2 = 1 THEN i % 15 ELSE 200 + (i % 50), i % 256, i - 1,
                  i % 8, i % 2, more, 1000 + i)

RECURSIVE ChainFrom(_, _, _)
ChainFrom(i, n, lastMore) ==
    IF i > n THEN <<>>
    ELSE ChainDatagram(i, IF i < n THEN 1 ELSE lastMore) \o ChainFrom(i + 1, n, lastMore)

\* n datagrams back to back, more_follows = 1 on all but the last
Chain(n, lastMore) == ChainFrom(1, n, lastMore)

\* bytes after the last datagram of a frame (padding of a short frame)
Trailing == <<1, 0>>

\* 01 00 AA BB 01 00 10 00 00 00 05 00
ScenarioBuf == <<1, 0, 170, 187, 1, 0, 16, 0, 0, 0, 5, 0>>

\* a header declaring length = 100 followed by 50 bytes only
ShortOfDeclaredLength ==
    <<4, 7, 170, 187, 16, 0, 100, 0, 0, 0>> \o [i \in 1..50 |-> i]

DecodeFrames ==
    {Frame(EtherTypeEtherCAT, Chain(n, m) \o Trailing) : n \in 1..MaxDatagrams, m \in {0, 1}}
    \cup {Frame(EtherTypeEtherCAT, ScenarioBuf),
          Frame(EtherTypeEtherCAT, ShortOfDeclaredLength)}

DecodePackets == UNION {{<<f, c>> : c \in 0..Len(f)} : f \in DecodeFrames}

\* every command byte, first in a frame and followed by another datagram
CodecFrames ==
    {Frame(EtherTypeEtherCAT,
           DatagramBytes(c, 1, 0, 0, 0, 1, 1) \o DatagramBytes(255 - c, 2, 1, 0, 0, 0, 2))
       : c \in Byte}

PipelineFrames ==
    {Frame(EtherTypeEtherCAT, Chain(1, 0)),
     Frame(EtherTypeEtherCAT, Chain(2, 0)),
     Frame(EtherTypeIPv4, Chain(1, 0))}

PipelinePackets ==
    UNION {{<<f, c>> : c \in {0, 13, 15, Len(f) - 1, Len(f)}} : f \in PipelineFrames}

Linktypes == {"ETHERNET", "RAW"}

InterfaceIds == {0, 1}

-----------------------------------------------------------------------------
(* Specifications *)

\* any capture of at most MaxBlocks blocks
Next ==
    \/ num_blocks < MaxBlocks /\ ReadSectionHeader
    \/ num_blocks < MaxBlocks /\ \E lt \in Linktypes : ReadInterfaceDescription(lt)
    \/ num_blocks < MaxBlocks /\ ReadOtherBlock
    \/ num_blocks < MaxBlocks /\ \E id \in InterfaceIds, p \in PipelinePackets :
                                    ReadEnhancedPacket(id, p[1], p[2])
    \/ ParseDatagram
    \/ ReadEof
    \/ ReadError

Spec == Init /\ [][Next]_vars

\* captures of Ethernet interfaces whose packets are the decode frames, cut
\* at every length
NextDecode ==
    \/ num_blocks < MaxDecodeBlocks /\ ReadInterfaceDescription("ETHERNET")
    \/ num_blocks < MaxDecodeBlocks /\ \E p \in DecodePackets :
                                          ReadEnhancedPacket(0, p[1], p[2])
    \/ ParseDatagram
    \/ ReadEof

SpecDecode == Init /\ [][NextDecode]_vars

\* captures of Ethernet interfaces whose packets sweep the command byte
NextCodec ==
    \/ num_blocks < MaxDecodeBlocks /\ ReadInterfaceDescription("ETHERNET")
    \/ num_blocks < MaxDecodeBlocks /\ \E f \in CodecFrames :
                                          ReadEnhancedPacket(0, f, Len(f))
    \/ ParseDatagram
    \/ ReadEof

SpecCodec == Init /\ [][NextCodec]_vars

-----------------------------------------------------------------------------
(* The wire format, as the decoder's contract states it: a datagram at     *)
(* offset off has its length in bits 0..10 and more_follows in bit 15 of   *)
(* the little-endian word in bytes 6-7, and takes 10 + length + 2 bytes.   *)

WireLengthAt(buf, off) == (At(buf, off + 6) + 256 * At(buf, off + 7)) % 2048

WireMoreAt(buf, off) == At(buf, off + 7) \div 128

WireWkcAt(buf, off) ==
    At(buf, off + 10 + WireLengthAt(buf, off))
    + 256 * At(buf, off + 11 + WireLengthAt(buf, off))

\* the datagram at off lies wholly inside buf
WireFits(buf, off) ==
    /\ Len(buf) >= off + 10
    /\ Len(buf) >= off + 10 + WireLengthAt(buf, off) + 2

\* offset of the k-th datagram (k >= 1) when the k-1 before it are in buf
RECURSIVE WireOffset(_, _)
WireOffset(buf, k) ==
    IF k <= 1 THEN 0
    ELSE LET prev == WireOffset(buf, k - 1)
         IN  prev + 10 + WireLengthAt(buf, prev) + 2

\* number of datagrams from off up to the first one with more_follows = 0,
\* or -1 when buf ends before that one is complete
RECURSIVE WireCountFrom(_, _)
WireCountFrom(buf, off) ==
    IF ~WireFits(buf, off) THEN -1
    ELSE IF WireMoreAt(buf, off) = 0 THEN 1
    ELSE LET rest == WireCountFrom(buf, off + 10 + WireLengthAt(buf, off) + 2)
         IN  IF rest = -1 THEN -1 ELSE rest + 1

WireCount(buf) == WireCountFrom(buf, 0)

CommandNames ==
    <<"NOP", "APRD", "APWR", "APRW", "FPRD", "FPWR", "FPRW", "BRD", "BWR", "BRW",
      "LRD", "LWR", "LRW", "ARMW", "FRMW">>

CommandName(b) == IF b < Len(CommandNames) THEN CommandNames[b + 1] ELSE "UNKNOWN"

\* the block read last is a packet of a declared Ethernet interface with a
\* non-empty capture: its link-layer payload can be extracted
Extractable ==
    /\ block.kind = "EnhancedPacket"
    /\ block.if_id < Len(if_linktypes)
    /\ if_linktypes[block.if_id + 1] = "ETHERNET"
    /\ block.caplen > 0
    /\ block.caplen <= Len(block.data)

\* ... and it holds the Ethernet and EtherCAT headers, so that its datagrams
\* are (being) decoded
FrameDecoded == Extractable /\ block.caplen >= 16

\* the bytes after the EtherCAT header of the packet read last
WirePayload == SubSeq(block.data, 17, block.caplen)

\* the i-th record printed by the current call of parse_datagrams
FrameRecord(i) == out[Len(out) - emitted + i]

Last(seq) == seq[Len(seq)]

\* the datagram at the cursor does not fit in what is left of the buffer
TruncatedAtCursor == ~WireFits(data_buf, next_datagram_offset)

-----------------------------------------------------------------------------
(* Claims *)

\* C1: no decode step panics on a short buffer: an Ethernet buffer under 14
\* bytes, an EtherCAT payload under 2 bytes or a datagram buffer under
\* 10 + length + 2 bytes gives the TruncatedInput outcome, never an
\* out-of-range index.
C1_NoDecodeStepPanics == panic_cause # "index out of bounds"

\* C2: truncation at the k-th datagram of a frame aborts that frame only: the
\* k-1 records stay, no record is added, and the run goes on with the next
\* block.
C2_TruncationAbortsFrameOnly ==
    [][(pc = "datagrams" /\ TruncatedAtCursor)
         => (pc' = "main" /\ out' = out /\ num_blocks' = num_blocks + 1)]_vars

\* C3: a well-formed frame of n datagrams (more_follows 1 on the first n-1, 0
\* on the n-th) gives exactly n records in wire order, one per datagram decoded
\* so far, and decoding stops at the n-th whatever bytes follow it.
C3_RecordsInWireOrder ==
    (FrameDecoded /\ WireCount(WirePayload) >= 1) =>
        LET n == WireCount(WirePayload)
        IN  /\ pc \in {"main", "datagrams"}
            /\ data_buf = WirePayload
            /\ emitted <= n
            /\ (pc = "main") <=> (emitted = n)
            /\ next_datagram_offset = WireOffset(WirePayload, emitted + 1)
            /\ Len(out) > emitted
            /\ \A i \in 1..emitted :
                 /\ FrameRecord(i).kind = "datagram"
                 /\ FrameRecord(i).index = At(WirePayload, WireOffset(WirePayload, i) + 1)
                 /\ FrameRecord(i).last_indicator
                      = WireMoreAt(WirePayload, WireOffset(WirePayload, i))
                 /\ FrameRecord(i).wkc = WireWkcAt(WirePayload, WireOffset(WirePayload, i))

\* C3 witness: a frame of three datagrams or more was decoded to its end, all
\* its records are out, and bytes follow its last datagram.
C3_Witness ==
    /\ FrameDecoded
    /\ pc = "main"
    /\ WireCount(WirePayload) >= 3
    /\ emitted = WireCount(WirePayload)
    /\ Len(WirePayload) > next_datagram_offset

\* C4: the datagram loop ends either at a datagram with more_follows = 0 or,
\* when the buffer runs out first, with the TruncatedInput outcome handed back
\* to the caller and no record for the cut datagram.
C4_LoopEndsAtLastOrTruncated ==
    [][(pc = "datagrams" /\ pc' # "datagrams")
         => /\ pc' = "main"
            /\ \/ out' = out
               \/ Last(out').last_indicator = 0]_vars

\* C5: the cursor starts at 0, grows by exactly 10 + L + 2 with each datagram
\* decoded, so it is the sum of the sizes of the datagrams decoded so far, and
\* it strictly increases.
C5_CursorIsSumOfSizes ==
    /\ [](pc = "datagrams" =>
            /\ data_buf = WirePayload
            /\ next_datagram_offset = WireOffset(data_buf, emitted + 1)
            /\ (emitted = 0 => next_datagram_offset = 0))
    /\ [][(pc = "datagrams" /\ pc' # "panicked")
            => /\ next_datagram_offset'
                    = next_datagram_offset + 10
                      + WireLengthAt(data_buf, next_datagram_offset) + 2
               /\ next_datagram_offset' > next_datagram_offset
               /\ emitted' = emitted + 1]_vars

\* C5 witness: two datagrams, one of them with data, were decoded and the loop
\* goes on.
C5_Witness ==
    /\ pc = "datagrams"
    /\ emitted >= 2
    /\ next_datagram_offset > 24

\* C6: the bytes after the Ethernet header go to the EtherCAT decoder only
\* when the ethertype is 0x88A4; otherwise no datagram is decoded.
C6_OnlyEtherCATDelegated == pc = "datagrams" => frame_type = EtherTypeEtherCAT

\* C7: the data of every record is exactly the length bytes after the 10-byte
\* header.
C7_DataIsLengthBytes ==
    \A i \in 1..Len(out) :
        out[i].kind = "datagram" => Len(out[i].data) = out[i].length

\* C8 as stated: the buffer 01 00 AA BB 01 00 10 00 00 00 05 00 gives one
\* record with command APRD, index 0, address_primary 0xBBAA,
\* address_secondary 0x0010, length 0, round_trip 0, more_follows 0, no data,
\* working counter 5, and the loop ends.
C8_ScenarioAsStated ==
    [][(pc = "datagrams" /\ data_buf = ScenarioBuf /\ next_datagram_offset = 0)
         => /\ pc' = "main"
            /\ Len(out') = Len(out) + 1
            /\ Last(out').cmd = "APRD"
            /\ Last(out').index = 0
            /\ Last(out').slave_addr = 48042
            /\ Last(out').offset_addr = 16
            /\ Last(out').length = 0
            /\ Last(out').round_trip = 0
            /\ Last(out').last_indicator = 0
            /\ Last(out').data = <<>>
            /\ Last(out').wkc = 5]_vars

\* C8 amended: with that layout the buffer's header is command APRD, index 0,
\* address_primary 0xBBAA, address_secondary 0x0001, length 16, round_trip 0,
\* more_follows 0, irq 0; the 12 bytes are fewer than the 28 this length
\* needs, so no record is written for it and the loop does not go on.
C8_ScenarioHeader ==
    [][(pc = "datagrams" /\ data_buf = ScenarioBuf /\ next_datagram_offset = 0)
         => /\ parse_header(data_buf) =
                 [cmd |-> "APRD", index |-> 0, slave_addr |-> 48042,
                  offset_addr |-> 1, length |-> 16, round_trip |-> 0,
                  last_indicator |-> 0, irq |-> 0]
            /\ Len(data_buf) < 10 + parse_header(data_buf).length + 2
            /\ out' = out
            /\ pc' # "datagrams"]_vars

\* C8 witness: the scenario buffer was handed to the datagram loop, which
\* ended on its first datagram with nothing written.
C8_Witness ==
    /\ FrameDecoded
    /\ data_buf = ScenarioBuf
    /\ pc # "datagrams"
    /\ emitted = 0
    /\ Last(out).kind # "datagram"

\* C9: every command byte 0..255 decodes: 0..14 to the fifteen names in
\* order, 15..255 to UNKNOWN; a datagram with an unknown command is decoded,
\* written and followed by the next one as its more_follows bit says.
C9_CommandDecodingTotal ==
    /\ panic_cause # "index out of bounds"
    /\ FrameDecoded =>
         /\ pc \in {"main", "datagrams"}
         /\ emitted <= WireCount(WirePayload)
         /\ (pc = "main") <=> (emitted = WireCount(WirePayload))
         /\ \A i \in 1..emitted :
              /\ FrameRecord(i).kind = "datagram"
              /\ FrameRecord(i).cmd
                   = CommandName(At(WirePayload, WireOffset(WirePayload, i)))
              /\ FrameRecord(i).index = At(WirePayload, WireOffset(WirePayload, i) + 1)

\* C9 witness: a datagram with command byte 255 and more_follows = 1 was
\* written as UNKNOWN and the datagram after it, command byte 0, as NOP.
C9_Witness ==
    /\ FrameDecoded
    /\ pc = "main"
    /\ emitted = 2
    /\ At(WirePayload, 0) = 255
    /\ FrameRecord(1).cmd = "UNKNOWN"
    /\ FrameRecord(1).last_indicator = 1
    /\ FrameRecord(2).cmd = "NOP"

\* C10: a packet block whose payload cannot be extracted (link type not
\* Ethernet, empty capture, interface not declared since the last section
\* header) and a block of any other kind each give one `unknown block` line,
\* no decoding, and the run goes on.
C10_UnknownBlockLine ==
    (block.kind = "Other" \/ (block.kind = "EnhancedPacket" /\ ~Extractable))
        => (pc = "main" /\ Last(out) = UnknownBlockLine)

=============================================================================
